---- MODULE Spec2Model ----
(***************************************************************************)
(* Model of the SecuredApplication reconciler                              *)
(* (internal/controller/securedapplication.go) together with the Zitadel   *)
(* and Cloudflare HTTP adapters it drives.  One descriptor is reconciled   *)
(* by sequential passes; every adapter call and every store write is one   *)
(* step whose outcome (HTTP status, store acceptance) is chosen by the     *)
(* environment.  The user may mark the descriptor for removal at any time. *)
(***************************************************************************)
EXTENDS Integers, Sequences, FiniteSets, TLC

\* ------------------------------------------------------------------ bounds
MaxPasses == 4

\* --------------------------------------------------------------- constants
NoId == 0
NoSecret == 0
TeardownRequeue == 30
FailureRequeue == 60
AppName == "app"
SpecHost == "a.example.com"
SpecProject == "infra"
SpecRoles == <<"admin", "viewer">>
roleClaimName == "custom:roles"
CloudflareIdPID == "idp"
SessionDuration == "24h"
AppNamespace == "default"

\* identifiers of the objects that exist before the first pass
RemoteIds == [project |-> 7, preZApp |-> 1, otherZApp |-> 90,
              preCfApp |-> 1, otherCfApp |-> 90]
ProjectIdOf == RemoteIds.project
PreZAppId == RemoteIds.preZApp
OtherZAppId == RemoteIds.otherZApp
PreCfAppId == RemoteIds.preCfApp
OtherCfAppId == RemoteIds.otherCfApp
\* a second project of the same Zitadel instance, with the same role keys
OtherProject == "platform"
OtherProjectId == 8
ClientIdOf(id) == 100 + id
SecretOf(id) == 200 + id

VARIABLES
    obj,        \* the descriptor as held by the object store
    stale,      \* the store copy changed since the pass read it
    zProject,   \* Zitadel: ID of the project named SpecProject, or NoId
    zRoles,     \* Zitadel: role keys of that project
    zApps,      \* Zitadel: OIDC applications
    cfApps,     \* Cloudflare: access applications
    cfPolicies, \* Cloudflare: access policies
    nextId,     \* next identifier each external system hands out
    k8sSecret,  \* the credential object
    k8sIngress, \* the route object
    pc,         \* position of the running pass ("idle" between passes)
    app,        \* the pass's in-memory copy of the descriptor
    app0,       \* the descriptor as read at the start of the pass
    loc,        \* the pass's local variables
    calls,      \* the calls the pass has issued so far, in order
    result,     \* ctrl.Result and error of the last finished pass
    passes,     \* number of passes started
    ctx,        \* the pass's context: "live" or "cancelled"
    peer,       \* a second descriptor, reconciled by passes of its own
    created     \* every external object the reconciler ever created

vars == <<obj, stale, zProject, zRoles, zApps, cfApps, cfPolicies, nextId,
          k8sSecret, k8sIngress, pc, app, app0, loc, calls, result, passes,
          ctx, peer, created>>

remote == <<zProject, zRoles, zApps, cfApps, cfPolicies, nextId>>
cluster == <<k8sSecret, k8sIngress>>

\* ------------------------------------------------------------- data shapes
NoCondition == [status |-> "", reason |-> "", message |-> ""]

\* metav1.Condition of type Ready, without its timestamp
Condition(status, reason, message) ==
    [status |-> status, reason |-> reason, message |-> message]

SecuredApplicationStatus ==
    [ProjectID |-> NoId, ZitadelAppID |-> NoId, ClientID |-> NoId,
     AccessApplicationID |-> NoId, AccessPolicyID |-> NoId,
     Ready |-> FALSE, cond |-> NoCondition]

\* the optional spec.ingress section: absent, or overriding the class
NoIngressConfig == [set |-> FALSE, ClassName |-> ""]
IngressConfig == [set |-> TRUE, ClassName |-> "nginx"]

\* the optional spec.oidc section: absent, without or with clientSecretRef
NoOIDC == [set |-> FALSE, ClientSecretRef |-> ""]
OIDC(ref) == [set |-> TRUE, ClientSecretRef |-> ref]
OIDCChoices == {NoOIDC, OIDC(""), OIDC("creds")}

SecuredApplicationSpec(dp, ingress) ==
    [Host |-> SpecHost, Project |-> SpecProject, Roles |-> SpecRoles,
     OIDC |-> NoOIDC, Ingress |-> ingress, DeleteProtection |-> dp]

NoLocals ==
    [project |-> NoId, existingRoles |-> {},
     oidcApp |-> [ID |-> NoId, ClientID |-> NoId], target |-> NoId,
     clientSecret |-> NoSecret, accessAppID |-> NoId, policyID |-> NoId,
     cond |-> NoCondition]

NoResult == [RequeueAfter |-> 0, err |-> FALSE]

Range(s) == {s[i] : i \in 1..Len(s)}

Call(op, id, resp, err, ret, secret) ==
    [op |-> op, id |-> id, code |-> resp.code, err |-> err, ret |-> ret,
     secret |-> secret]

\* ------------------------------------------------- HTTP transport (do)
Resp(code, body) == [code |-> code, body |-> body]
OK == Resp(200, "")
Unavailable == Resp(503, "unavailable")
NotFound == Resp(404, "not found")
NoChanges == Resp(400, "No changes")
\* no response at all: http.Client.Do failed on a cancelled context
Cancelled == Resp(0, "context canceled")

\* zitadel httpClient.do: any status >= 400 is an error carrying the body
zitadel_do(resp) ==
    IF resp.code = 0 \/ resp.code >= 400 THEN [err |-> TRUE, msg |-> resp.body]
                        ELSE [err |-> FALSE, msg |-> ""]

\* cloudflare httpClient.do: any status >= 400 is an error
cloudflare_do(resp) ==
    IF resp.code = 0 \/ resp.code >= 400 THEN [err |-> TRUE, msg |-> resp.body]
                        ELSE [err |-> FALSE, msg |-> ""]

\* ------------------------------------------------ Zitadel adapter (client)
\* GetProjectByName: first result of the exact-name search, nil when empty
GetProjectByName(resp, found) ==
    IF zitadel_do(resp).err THEN [err |-> TRUE, ID |-> NoId]
    ELSE [err |-> FALSE, ID |-> found]

\* what the project search answers for a name (exact-match text query)
ProjectByName(name, infra) ==
    IF name = SpecProject THEN infra
    ELSE IF name = OtherProject THEN OtherProjectId
    ELSE NoId

\* GetAppByName: exact-name search inside one project
AppsByName(apps, projectID, name) ==
    {a \in apps : a.project = projectID /\ a.name = name}

\* variant: no error text is recognised as a no-op
IsNoChanges_Never(msg) == FALSE

\* UpdateApp, line 239: strings.Contains(err.Error(), "No changes")
IsNoChanges(msg) == msg = NoChanges.body

\* variant: a "No changes" rejection is an error like any other
UpdateApp_NoChangesIsError(resp) == zitadel_do(resp).err

\* UpdateApp: a "No changes" rejection is a successful no-op
UpdateApp(resp) ==
    LET r == zitadel_do(resp)
    IN  IF r.err THEN (IF IsNoChanges(r.msg) THEN FALSE ELSE TRUE)
        ELSE FALSE

\* DeleteApp: returns the transport error unchanged
DeleteApp(resp) == zitadel_do(resp).err

\* what the Zitadel server answers
UpdateAppResponses(apps, projectID, appID, config) ==
    LET hit == {a \in apps : a.id = appID /\ a.project = projectID}
    IN  IF hit = {} THEN {NotFound, Unavailable}
        ELSE IF \E a \in hit : a.cfg = config THEN {NoChanges, Unavailable}
        ELSE {OK, Unavailable}

DeleteAppResponses(apps, projectID, appID) ==
    IF \E a \in apps : a.id = appID /\ a.project = projectID
    THEN {OK, Unavailable} ELSE {NotFound, Unavailable}

\* --------------------------------------------- Cloudflare adapter (client)
\* FindAccessAppByDomain: list every application, keep those of the domain
AppsByDomain(apps, domain) == {a \in apps : a.domain = domain}

DeleteAccessApp(resp) == cloudflare_do(resp).err

UpdateAccessApp(resp) == cloudflare_do(resp).err

DeleteAccessAppResponses(apps, appID) ==
    IF \E a \in apps : a.id = appID
    THEN {OK, Unavailable} ELSE {NotFound, Unavailable}

UpdateAccessAppResponses(apps, appID) ==
    IF \E a \in apps : a.id = appID
    THEN {OK, Unavailable} ELSE {NotFound, Unavailable}

\* variant: the policy is created anew on every pass
UpsertIsUpdate_Never(existingPolicyID) == FALSE

\* UpsertAccessPolicy: PUT on a known policy ID, POST otherwise
UpsertIsUpdate(existingPolicyID) == existingPolicyID # NoId

\* variant: the update path returns no identifier
UpsertReturn_Empty(existingPolicyID, id) ==
    IF UpsertIsUpdate(existingPolicyID) THEN NoId ELSE id

\* UpsertAccessPolicy: the identifier of the policy it returns, the known one
\* after a PUT, the one in the response after a POST
UpsertReturn(existingPolicyID, id) ==
    IF UpsertIsUpdate(existingPolicyID) THEN existingPolicyID ELSE id

UpsertResponses(policies, appID, existingPolicyID) ==
    IF UpsertIsUpdate(existingPolicyID)
    THEN (IF \E p \in policies : p.id = existingPolicyID /\ p.app = appID
          THEN {OK, Unavailable} ELSE {NotFound, Unavailable})
    ELSE {OK, Unavailable}

\* --------------------------------------------------- reconciler decisions
\* variant: only the first requested role becomes a rule
Rules_FirstOnly(roles) ==
    [i \in 1..1 |->
        [IdentityProviderID |-> CloudflareIdPID,
         ClaimName |-> roleClaimName, ClaimValue |-> roles[i]]]

\* Reconcile, lines 172-179: one claim rule per requested role
Rules(roles) ==
    [i \in 1..Len(roles) |->
        [IdentityProviderID |-> CloudflareIdPID,
         ClaimName |-> roleClaimName, ClaimValue |-> roles[i]]]

\* reconcileZitadelApp, lines 203-212: the desired application configuration
AppConfig(a) == [Name |-> AppName, RedirectURIs |-> a.spec.Host]

\* variant: only the first requested role is validated
FirstMissing_OnlyFirst(roles, roleSet) ==
    IF roles[1] \in roleSet THEN 0 ELSE 1

\* Reconcile, lines 121-130: index of the first requested role that the
\* project does not define, 0 when every role exists
FirstMissing(roles, roleSet) ==
    IF \A i \in 1..Len(roles) : roles[i] \in roleSet THEN 0
    ELSE CHOOSE i \in 1..Len(roles) :
            /\ roles[i] \notin roleSet
            /\ \A j \in 1..(i-1) : roles[j] \in roleSet

\* Reconcile, lines 69-71 and 99: where a pass goes after reading the object
NeedsDeleteApp(a) ==
    a.status.ZitadelAppID # NoId /\ a.status.ProjectID # NoId

\* variant: the access application is never deleted on teardown
NeedsDeleteAccessApp_Never(a) == FALSE

NeedsDeleteAccessApp(a) == a.status.AccessApplicationID # NoId

\* variant: teardown reports through the status write
AfterDeleteApp_ViaStatus(a) == "setCondition"

AfterDeleteApp(a) ==
    IF NeedsDeleteAccessApp(a) THEN "DeleteAccessApp" ELSE "RemoveFinalizer"

\* variant: teardown does not look for the marker
TeardownNext_NoMarkerCheck(a) ==
    IF ~a.spec.DeleteProtection
    THEN IF NeedsDeleteApp(a) THEN "DeleteApp" ELSE AfterDeleteApp(a)
    ELSE "RemoveFinalizer"

\* Reconcile, lines 69-96: the first call of a pass on a descriptor marked
\* for removal; none when the marker is absent
TeardownNext(a) ==
    IF a.finalizer
    THEN IF ~a.spec.DeleteProtection
         THEN IF NeedsDeleteApp(a) THEN "DeleteApp" ELSE AfterDeleteApp(a)
         ELSE "RemoveFinalizer"
    ELSE "idle"

\* variant: teardown ignores deleteProtection
AfterGet_IgnoreProtection(a) ==
    IF a.deleting
    THEN IF a.finalizer
         THEN IF NeedsDeleteApp(a) THEN "DeleteApp" ELSE AfterDeleteApp(a)
         ELSE "idle"
    ELSE IF ~a.finalizer THEN "AddFinalizer" ELSE "GetProjectByName"

AfterGet(a) ==
    IF a.deleting
    THEN TeardownNext(a)
    ELSE IF ~a.finalizer THEN "AddFinalizer" ELSE "GetProjectByName"

\* variant: a failed delete is logged and teardown carries on
AfterDelete_IgnoreErr(err, next) == next

\* Reconcile, lines 74-77 and 81-84: a failed delete ends the pass
AfterDelete(err, next) == IF err THEN "idle" ELSE next

\* variant: the recorded ID is ignored and the name is looked up every pass
AfterRoles_AlwaysLookup(a) == "GetAppByName"

\* reconcileZitadelApp, line 241: update in place when the ID is known
AfterRoles(a) ==
    IF a.status.ZitadelAppID # NoId THEN "UpdateApp" ELSE "GetAppByName"

\* variant: the application found by name is not adopted
AfterGetAppByName_AlwaysCreate(existing) == "CreateApp"

\* reconcileZitadelApp, lines 256-264: adopt the application found by name
AfterGetAppByName(existing) ==
    IF existing # NoId THEN "UpdateApp" ELSE "CreateApp"

\* variant: the credential object is written on every pass
AfterZitadelApp_AlwaysWrite(clientSecret, a) == "writeCredentialSecret"

\* Reconcile, line 140: the credential object is written for a fresh secret
AfterZitadelApp(clientSecret, a) ==
    IF clientSecret # NoSecret THEN "writeCredentialSecret"
    ELSE IF a.status.AccessApplicationID = NoId THEN "FindAccessAppByDomain"
    ELSE "UpdateAccessApp"

\* variant: the access-application step is skipped after a credential write
AfterSecret_SkipAccessApp(a) == "UpsertAccessPolicy"

\* Reconcile, lines 147-148
AfterSecret(a) ==
    IF a.status.AccessApplicationID = NoId THEN "FindAccessAppByDomain"
    ELSE "UpdateAccessApp"

\* variant: the application found by domain is not adopted
AfterFind_AlwaysCreate(accessAppID) == "CreateAccessApp"

\* Reconcile, lines 153-164
AfterFind(accessAppID) ==
    IF accessAppID # NoId THEN "UpdateAccessApp" ELSE "CreateAccessApp"

\* variant: the route object is written only when spec.ingress is present
AfterPolicy_OnlyOnRequest(a) ==
    IF a.spec.Ingress.set THEN "reconcileIngress" ELSE "setCondition"

\* Reconcile, lines 186-189: the route step follows the policy step always
AfterPolicy(a) == "reconcileIngress"

\* reconcileIngress, lines 310-313: class override, then the default
IngressClassName(a) ==
    IF a.spec.Ingress.set /\ a.spec.Ingress.ClassName # ""
    THEN a.spec.Ingress.ClassName ELSE "cloudflare-tunnel"

\* variant: clientSecretRef is ignored
SecretName_AlwaysDefault(a) == AppName \o "-oidc"

\* writeCredentialSecret, lines 272-275: the name of the credential object
SecretName(a) ==
    IF a.spec.OIDC.set /\ a.spec.OIDC.ClientSecretRef # ""
    THEN a.spec.OIDC.ClientSecretRef
    ELSE AppName \o "-oidc"

\* variant: cluster objects are written without an owner reference
SetControllerReference_None(a) == ""

\* writeCredentialSecret line 285, reconcileIngress line 306: the descriptor
\* becomes the controlling owner of the object
SetControllerReference(a) == AppName

\* variant: the update path forgets the recorded client ID
KnownApp_NoClientID(st) == [ID |-> st.ZitadelAppID, ClientID |-> NoId]

\* reconcileZitadelApp, lines 245-248: the update path returns the recorded IDs
KnownApp(st) == [ID |-> st.ZitadelAppID, ClientID |-> st.ClientID]

\* variant: the client secret is recorded in place of the client ID
SuccessStatus_LeakSecret(st, l) ==
    [st EXCEPT !.ProjectID = l.project,
               !.ZitadelAppID = l.oidcApp.ID,
               !.ClientID = l.clientSecret,
               !.AccessApplicationID = l.accessAppID,
               !.AccessPolicyID = l.policyID,
               !.Ready = TRUE]

\* Reconcile, lines 193-198: the identifiers obtained in this pass
SuccessStatus(st, l) ==
    [st EXCEPT !.ProjectID = l.project,
               !.ZitadelAppID = l.oidcApp.ID,
               !.ClientID = l.oidcApp.ClientID,
               !.AccessApplicationID = l.accessAppID,
               !.AccessPolicyID = l.policyID,
               !.Ready = TRUE]

\* variant: a failure leaves the ready flag as it was
ReadyAfter_Keep(status, ready) == ready

\* setCondition, lines 374-376: any outcome but True clears the ready flag
ReadyAfter(status, ready) == IF status # "True" THEN FALSE ELSE ready

\* variant: a failed pass is not retried
ConditionResult_NoRetry(status) == NoResult

\* setCondition, lines 380-383
ConditionResult(status) ==
    IF status # "True" THEN [RequeueAfter |-> FailureRequeue, err |-> FALSE]
    ELSE NoResult

\* calls may fail for reasons of their own (outage, rejected write, cancelled
\* context) only in the first MaxPasses passes; later passes meet reachable
\* systems
Calm == passes > MaxPasses

\* the store rejects a write on a stale or vanished object, and the client
\* sends nothing on a cancelled context
WriteOutcomes ==
    IF stale \/ ~obj.exists \/ ctx = "cancelled" THEN {FALSE}
    ELSE IF Calm THEN {TRUE}
    ELSE {TRUE, FALSE}

\* create-or-update of a cluster object goes through the same client
ClusterOutcomes ==
    IF ctx = "cancelled" THEN {FALSE}
    ELSE IF Calm THEN {TRUE}
    ELSE {TRUE, FALSE}

\* an adapter call on a cancelled context gets no response
Answers(responses) ==
    IF ctx = "cancelled" THEN {Cancelled}
    ELSE IF Calm THEN {r \in responses : r.code # Unavailable.code}
    ELSE responses


\* ------------------------------------------------------------------- Init
Locals(a) ==
    [NoLocals EXCEPT !.accessAppID = a.status.AccessApplicationID,
                     !.target = a.status.ZitadelAppID]

ZApp(id, project, name, cfg) ==
    [id |-> id, project |-> project, name |-> name, cfg |-> cfg,
     clientId |-> ClientIdOf(id)]

OtherZApp ==
    ZApp(OtherZAppId, ProjectIdOf, "other",
         [Name |-> "other", RedirectURIs |-> "b.example.com"])

PreZApp ==
    ZApp(PreZAppId, ProjectIdOf, AppName,
         [Name |-> AppName, RedirectURIs |-> "old.example.com"])

OtherCfApp == [id |-> OtherCfAppId, domain |-> "b.example.com", name |-> "other"]
PreCfApp == [id |-> PreCfAppId, domain |-> SpecHost, name |-> "manual"]

\* no second descriptor
NoPeer ==
    [present |-> FALSE, name |-> "", host |-> "",
     status |-> [ZitadelAppID |-> NoId, AccessApplicationID |-> NoId,
                 AccessPolicyID |-> NoId]]

\* a second descriptor of the same project and roles: metadata.name and
\* spec.host as given, in a namespace of its own
Peer(name, host) == [NoPeer EXCEPT !.present = TRUE, !.name = name,
                                   !.host = host]

InitWith(oidc) ==
    /\ \E dp \in BOOLEAN, ingress \in {NoIngressConfig, IngressConfig} :
          obj = [exists |-> TRUE, deleting |-> FALSE, finalizer |-> FALSE,
                 spec |-> [SecuredApplicationSpec(dp, ingress)
                              EXCEPT !.OIDC = oidc],
                 status |-> SecuredApplicationStatus]
    /\ stale = FALSE
    /\ zProject \in {NoId, ProjectIdOf}
    /\ zRoles \in SUBSET {"admin", "viewer"}
    /\ zApps \in {{OtherZApp}, {OtherZApp, PreZApp}}
    /\ cfApps \in {{OtherCfApp}, {OtherCfApp, PreCfApp}}
    /\ cfPolicies = {}
    /\ nextId = [z |-> 2, cf |-> 2, pol |-> 1]
    /\ k8sSecret = [exists |-> FALSE, name |-> "", namespace |-> "",
                    clientId |-> NoId, clientSecret |-> NoSecret,
                    owner |-> ""]
    /\ k8sIngress = [exists |-> FALSE, owner |-> "", host |-> "",
                     className |-> ""]
    /\ pc = "idle"
    /\ app = obj
    /\ app0 = obj
    /\ loc = NoLocals
    /\ calls = <<>>
    /\ result = NoResult
    /\ passes = 0
    /\ ctx = "live"
    /\ created = [z |-> {}, cf |-> {}, pol |-> {}]

InitOne == InitWith(NoOIDC)

Init ==
    /\ InitOne
    /\ peer = NoPeer

\* ------------------------------------------------------------ pass steps
\* the message that goes with a failure reason: a formatted text for the two
\* not-found outcomes (lines 112-113, 127-128), err.Error() for the others
FailureMessage(reason) ==
    IF reason = "ProjectNotFound" THEN "Zitadel project not found"
    ELSE IF reason = "RoleNotFound" THEN "role does not exist"
    ELSE "error"

\* variant: the failure is recorded but the pass does not return
Fail_NoReturn(reason) ==
    /\ loc' = [loc EXCEPT !.cond = Condition("False", reason,
                                             FailureMessage(reason))]
    /\ pc' = "reconcileIngress"

\* a failed step hands its reason to setCondition
Fail(reason) ==
    /\ loc' = [loc EXCEPT !.cond = Condition("False", reason,
                                             FailureMessage(reason))]
    /\ pc' = "setCondition"

Log(c) == calls' = Append(calls, c)

StoreResp(ok) == IF ok THEN OK ELSE Resp(409, "conflict")

\* Reconcile, lines 60-66: read the descriptor and branch
Get ==
    /\ pc = "idle"
    /\ passes < MaxPasses
    /\ passes' = passes + 1
    /\ calls' = <<>>
    /\ result' = NoResult
    /\ app' = obj
    /\ app0' = obj
    /\ loc' = Locals(obj)
    /\ stale' = FALSE
    /\ ctx' = "live"
    /\ pc' = IF obj.exists THEN AfterGet(obj) ELSE "idle"
    /\ UNCHANGED <<obj, remote, cluster, created, peer>>

\* Reconcile, lines 72-78
DeleteAppStep ==
    /\ pc = "DeleteApp"
    /\ \E resp \in Answers(DeleteAppResponses(zApps, app.status.ProjectID,
                                      app.status.ZitadelAppID)) :
          LET err == DeleteApp(resp) IN
          /\ zApps' = IF resp.code = 200
                      THEN {a \in zApps : a.id # app.status.ZitadelAppID}
                      ELSE zApps
          /\ Log(Call("DeleteApp", app.status.ZitadelAppID, resp, err,
                      NoId, NoSecret))
          /\ pc' = AfterDelete(err, AfterDeleteApp(app))
          /\ result' = IF err
                       THEN [RequeueAfter |-> TeardownRequeue, err |-> FALSE]
                       ELSE result
    /\ UNCHANGED <<obj, stale, zProject, zRoles, cfApps, cfPolicies, nextId,
                   cluster, app, app0, loc, passes, ctx, created, peer>>

\* Reconcile, lines 79-85
DeleteAccessAppStep ==
    /\ pc = "DeleteAccessApp"
    /\ \E resp \in Answers(DeleteAccessAppResponses(cfApps,
                                            app.status.AccessApplicationID)) :
          LET err == DeleteAccessApp(resp) IN
          /\ cfApps' = IF resp.code = 200
                       THEN {a \in cfApps :
                                a.id # app.status.AccessApplicationID}
                       ELSE cfApps
          /\ cfPolicies' = IF resp.code = 200
                           THEN {p \in cfPolicies :
                                    p.app # app.status.AccessApplicationID}
                           ELSE cfPolicies
          /\ Log(Call("DeleteAccessApp", app.status.AccessApplicationID, resp,
                      err, NoId, NoSecret))
          /\ pc' = AfterDelete(err, "RemoveFinalizer")
          /\ result' = IF err
                       THEN [RequeueAfter |-> TeardownRequeue, err |-> FALSE]
                       ELSE result
    /\ UNCHANGED <<obj, stale, zProject, zRoles, zApps, nextId, cluster, app,
                   app0, loc, passes, ctx, created, peer>>

\* variant: the error of a marker write is dropped
WriteResult_Swallow(ok) == NoResult

\* Reconcile, lines 91-93 and 101-103: a marker write returns its own error
WriteResult(ok) == [RequeueAfter |-> 0, err |-> ~ok]

\* Reconcile, lines 90-95: drop the marker and write the object
RemoveFinalizer ==
    /\ pc = "RemoveFinalizer"
    /\ app' = [app EXCEPT !.finalizer = FALSE]
    /\ \E ok \in WriteOutcomes :
          /\ obj' = IF ok THEN [obj EXCEPT !.finalizer = FALSE,
                                           !.exists = ~app.deleting]
                    ELSE obj
          /\ Log(Call("RemoveFinalizer", NoId, StoreResp(ok), ~ok, NoId,
                      NoSecret))
          /\ result' = WriteResult(ok)
    /\ pc' = "idle"
    /\ UNCHANGED <<stale, remote, cluster, app0, loc, passes, ctx, created, peer>>

\* variant: the pass goes on after a failed marker write
AfterAddFinalizer_IgnoreErr(ok) == "GetProjectByName"

\* Reconcile, lines 98-104: a failed marker write ends the pass
AfterAddFinalizer(ok) == IF ok THEN "GetProjectByName" ELSE "idle"

\* Reconcile, lines 99-104: persist the marker before any adapter call
AddFinalizer ==
    /\ pc = "AddFinalizer"
    /\ app' = [app EXCEPT !.finalizer = TRUE]
    /\ \E ok \in WriteOutcomes :
          /\ obj' = IF ok THEN [obj EXCEPT !.finalizer = TRUE] ELSE obj
          /\ Log(Call("AddFinalizer", NoId, StoreResp(ok), ~ok, NoId,
                      NoSecret))
          /\ pc' = AfterAddFinalizer(ok)
          /\ result' = WriteResult(ok)
    /\ UNCHANGED <<stale, remote, cluster, app0, loc, passes, ctx, created, peer>>

\* variant: a missing project is reported as a failed lookup
ProjectOutcome_Conflated(r) ==
    IF r.err \/ r.ID = NoId THEN "ProjectLookupFailed" ELSE ""

\* Reconcile, lines 108-114: the reason recorded for the lookup, "" to go on
ProjectOutcome(r) ==
    IF r.err THEN "ProjectLookupFailed"
    ELSE IF r.ID = NoId THEN "ProjectNotFound"
    ELSE ""

\* Reconcile, lines 107-114
GetProjectByNameStep ==
    /\ pc = "GetProjectByName"
    /\ \E resp \in Answers({OK, Unavailable}) :
          LET r == GetProjectByName(resp,
                                    ProjectByName(app.spec.Project, zProject))
          IN
          /\ Log(Call("GetProjectByName", NoId, resp, r.err, r.ID, NoSecret))
          /\ IF ProjectOutcome(r) # "" THEN Fail(ProjectOutcome(r))
             ELSE /\ loc' = [loc EXCEPT !.project = r.ID]
                  /\ pc' = "ListProjectRoles"
    /\ UNCHANGED <<obj, stale, remote, cluster, app, app0, result, passes, ctx,
                   created, peer>>

\* Reconcile, lines 117-130
ListProjectRolesStep ==
    /\ pc = "ListProjectRoles"
    /\ \E resp \in Answers({OK, Unavailable}) :
          LET err == zitadel_do(resp).err IN
          /\ Log(Call("ListProjectRoles", loc.project, resp, err, NoId,
                      NoSecret))
          /\ IF err THEN Fail("RoleLookupFailed")
             ELSE IF FirstMissing(app.spec.Roles, zRoles) # 0
             THEN /\ loc' = [loc EXCEPT
                               !.existingRoles = zRoles,
                               !.cond = Condition("False", "RoleNotFound",
                                           FailureMessage("RoleNotFound"))]
                  /\ pc' = "setCondition"
             ELSE /\ loc' = [loc EXCEPT !.existingRoles = zRoles]
                  /\ pc' = AfterRoles(app)
    /\ UNCHANGED <<obj, stale, remote, cluster, app, app0, result, passes, ctx,
                   created, peer>>

\* reconcileZitadelApp, lines 241-249 (known ID) and 257-260 (adopted)
UpdateAppStep ==
    /\ pc = "UpdateApp"
    /\ \E resp \in Answers(UpdateAppResponses(zApps, loc.project, loc.target,
                                      AppConfig(app))) :
          LET err == UpdateApp(resp) IN
          /\ zApps' = IF resp.code = 200
                      THEN {IF a.id = loc.target /\ a.project = loc.project
                            THEN [a EXCEPT !.cfg = AppConfig(app)] ELSE a :
                            a \in zApps}
                      ELSE zApps
          /\ Log(Call("UpdateApp", loc.target, resp, err, NoId, NoSecret))
          /\ IF err THEN Fail("ZitadelAppFailed")
             ELSE /\ loc' = [loc EXCEPT
                       !.oidcApp = IF app.status.ZitadelAppID # NoId
                                   THEN KnownApp(app.status) ELSE @,
                       !.clientSecret = NoSecret]
                  /\ pc' = AfterZitadelApp(NoSecret, app)
    /\ UNCHANGED <<obj, stale, zProject, zRoles, cfApps, cfPolicies, nextId,
                   cluster, app, app0, result, passes, ctx, created, peer>>

\* reconcileZitadelApp, lines 252-256
GetAppByNameStep ==
    /\ pc = "GetAppByName"
    /\ \E resp \in Answers({OK, Unavailable}) :
          LET err == zitadel_do(resp).err
              hits == AppsByName(zApps, loc.project, AppName)
              found == IF hits = {} THEN {NoId} ELSE {a.id : a \in hits}
          IN  IF err
              THEN /\ Log(Call("GetAppByName", loc.project, resp, TRUE, NoId,
                               NoSecret))
                   /\ Fail("ZitadelAppFailed")
              ELSE \E existing \in found :
                   /\ Log(Call("GetAppByName", loc.project, resp, FALSE,
                               existing, NoSecret))
                   /\ loc' = [loc EXCEPT
                        !.target = existing,
                        !.oidcApp = [ID |-> existing,
                                     ClientID |-> IF existing = NoId THEN NoId
                                                  ELSE ClientIdOf(existing)]]
                   /\ pc' = AfterGetAppByName(existing)
    /\ UNCHANGED <<obj, stale, remote, cluster, app, app0, result, passes, ctx,
                   created, peer>>

\* reconcileZitadelApp, lines 264-268: the only path that yields a secret
CreateAppStep ==
    /\ pc = "CreateApp"
    /\ \E resp \in Answers({OK, Unavailable}) :
          LET err == zitadel_do(resp).err
              id == nextId.z
          IN  IF err
              THEN /\ Log(Call("CreateApp", loc.project, resp, TRUE, NoId,
                               NoSecret))
                   /\ Fail("ZitadelAppFailed")
                   /\ UNCHANGED <<zApps, nextId, created>>
              ELSE \E sec \in {NoSecret, SecretOf(id)} :
                   /\ zApps' = zApps \cup
                         {ZApp(id, loc.project, AppName, AppConfig(app))}
                   /\ nextId' = [nextId EXCEPT !.z = @ + 1]
                   /\ created' = [created EXCEPT !.z = @ \cup {id}]
                   /\ Log(Call("CreateApp", loc.project, resp, FALSE, id, sec))
                   /\ loc' = [loc EXCEPT
                        !.oidcApp = [ID |-> id, ClientID |-> ClientIdOf(id)],
                        !.clientSecret = sec]
                   /\ pc' = AfterZitadelApp(sec, app)
    /\ UNCHANGED <<obj, stale, zProject, zRoles, cfApps, cfPolicies, cluster,
                   app, app0, result, passes, ctx, peer>>

\* writeCredentialSecret, lines 271-295
writeCredentialSecret ==
    /\ pc = "writeCredentialSecret"
    /\ \E ok \in ClusterOutcomes :
          /\ Log(Call("writeCredentialSecret", loc.oidcApp.ClientID,
                      StoreResp(ok), ~ok, NoId, loc.clientSecret))
          /\ IF ok
             THEN /\ k8sSecret' = [exists |-> TRUE,
                                   name |-> SecretName(app),
                                   namespace |-> AppNamespace,
                                   clientId |-> loc.oidcApp.ClientID,
                                   clientSecret |-> loc.clientSecret,
                                   owner |-> SetControllerReference(app)]
                  /\ pc' = AfterSecret(app)
                  /\ loc' = loc
             ELSE /\ k8sSecret' = k8sSecret
                  /\ Fail("SecretFailed")
    /\ UNCHANGED <<obj, stale, remote, k8sIngress, app, app0, result, passes, ctx,
                   created, peer>>

\* Reconcile, lines 148-157
FindAccessAppByDomainStep ==
    /\ pc = "FindAccessAppByDomain"
    /\ \E resp \in Answers({OK, Unavailable}) :
          LET err == cloudflare_do(resp).err
              hits == AppsByDomain(cfApps, app.spec.Host)
              found == IF hits = {} THEN {NoId} ELSE {a.id : a \in hits}
          IN  IF err
              THEN /\ Log(Call("FindAccessAppByDomain", NoId, resp, TRUE,
                               NoId, NoSecret))
                   /\ Fail("CloudflareLookupFailed")
              ELSE \E existing \in found :
                   /\ Log(Call("FindAccessAppByDomain", NoId, resp, FALSE,
                               existing, NoSecret))
                   /\ loc' = [loc EXCEPT !.accessAppID = existing]
                   /\ pc' = AfterFind(existing)
    /\ UNCHANGED <<obj, stale, remote, cluster, app, app0, result, passes, ctx,
                   created, peer>>

\* Reconcile, lines 159-162
UpdateAccessAppStep ==
    /\ pc = "UpdateAccessApp"
    /\ \E resp \in Answers(UpdateAccessAppResponses(cfApps, loc.accessAppID)) :
          LET err == UpdateAccessApp(resp) IN
          /\ cfApps' = IF resp.code = 200
                       THEN {IF a.id = loc.accessAppID
                             THEN [a EXCEPT !.name = AppName,
                                            !.domain = app.spec.Host]
                             ELSE a : a \in cfApps}
                       ELSE cfApps
          /\ Log(Call("UpdateAccessApp", loc.accessAppID, resp, err, NoId,
                      NoSecret))
          /\ IF err THEN Fail("CloudflareUpdateFailed")
             ELSE /\ loc' = loc
                  /\ pc' = "UpsertAccessPolicy"
    /\ UNCHANGED <<obj, stale, zProject, zRoles, zApps, cfPolicies, nextId,
                   cluster, app, app0, result, passes, ctx, created, peer>>

\* Reconcile, lines 164-169
CreateAccessAppStep ==
    /\ pc = "CreateAccessApp"
    /\ \E resp \in Answers({OK, Unavailable}) :
          LET err == cloudflare_do(resp).err
              id == nextId.cf
          IN  /\ Log(Call("CreateAccessApp", NoId, resp, err,
                          IF err THEN NoId ELSE id, NoSecret))
              /\ IF err
                 THEN /\ Fail("CloudflareCreateFailed")
                      /\ UNCHANGED <<cfApps, nextId, created>>
                 ELSE /\ cfApps' = cfApps \cup
                            {[id |-> id, domain |-> app.spec.Host,
                              name |-> AppName]}
                      /\ nextId' = [nextId EXCEPT !.cf = @ + 1]
                      /\ created' = [created EXCEPT !.cf = @ \cup {id}]
                      /\ loc' = [loc EXCEPT !.accessAppID = id]
                      /\ pc' = "UpsertAccessPolicy"
    /\ UNCHANGED <<obj, stale, zProject, zRoles, zApps, cfPolicies, cluster,
                   app, app0, result, passes, ctx, peer>>

\* Reconcile, lines 181-184, and httpClient.UpsertAccessPolicy
UpsertAccessPolicyStep ==
    /\ pc = "UpsertAccessPolicy"
    /\ \E resp \in Answers(UpsertResponses(cfPolicies, loc.accessAppID,
                                   app.status.AccessPolicyID)) :
          LET err == cloudflare_do(resp).err
              existing == app.status.AccessPolicyID
              rules == Rules(app.spec.Roles)
              id == nextId.pol
          IN  IF err
              THEN /\ Log(Call(IF UpsertIsUpdate(existing) THEN "UpdatePolicy"
                               ELSE "CreatePolicy",
                               loc.accessAppID, resp, TRUE, NoId, NoSecret))
                   /\ Fail("PolicyFailed")
                   /\ UNCHANGED <<cfPolicies, nextId, created>>
              ELSE IF UpsertIsUpdate(existing)
              THEN /\ cfPolicies' =
                         {IF p.id = existing /\ p.app = loc.accessAppID
                          THEN [p EXCEPT !.rules = rules] ELSE p :
                          p \in cfPolicies}
                   /\ Log(Call("UpdatePolicy", loc.accessAppID, resp, FALSE,
                               UpsertReturn(existing, id), NoSecret))
                   /\ loc' = [loc EXCEPT
                                !.policyID = UpsertReturn(existing, id)]
                   /\ pc' = AfterPolicy(app)
                   /\ UNCHANGED <<nextId, created>>
              ELSE /\ cfPolicies' = cfPolicies \cup
                         {[id |-> id, app |-> loc.accessAppID,
                           rules |-> rules]}
                   /\ nextId' = [nextId EXCEPT !.pol = @ + 1]
                   /\ created' = [created EXCEPT
                                    !.pol = @ \cup {<<id, loc.accessAppID>>}]
                   /\ Log(Call("CreatePolicy", loc.accessAppID, resp, FALSE,
                               UpsertReturn(existing, id), NoSecret))
                   /\ loc' = [loc EXCEPT
                                !.policyID = UpsertReturn(existing, id)]
                   /\ pc' = AfterPolicy(app)
    /\ UNCHANGED <<obj, stale, zProject, zRoles, zApps, cfApps, cluster, app,
                   app0, result, passes, ctx, peer>>

\* Reconcile, lines 187-198, and reconcileIngress
reconcileIngress ==
    /\ pc = "reconcileIngress"
    /\ \E ok \in ClusterOutcomes :
          /\ Log(Call("reconcileIngress", NoId, StoreResp(ok), ~ok, NoId,
                      NoSecret))
          /\ IF ok
             THEN /\ k8sIngress' = [exists |-> TRUE,
                                    owner |-> SetControllerReference(app),
                                    host |-> app.spec.Host,
                                    className |-> IngressClassName(app)]
                  /\ app' = [app EXCEPT
                                !.status = SuccessStatus(app.status, loc)]
                  /\ loc' = [loc EXCEPT !.cond =
                               Condition("True", "Reconciled",
                                         "All resources are up to date")]
                  /\ pc' = "setCondition"
             ELSE /\ k8sIngress' = k8sIngress
                  /\ app' = app
                  /\ Fail("IngressFailed")
    /\ UNCHANGED <<obj, stale, remote, k8sSecret, app0, result, passes, ctx,
                   created, peer>>

\* variant: a failure wipes the recorded identifiers
StatusWritten_ClearIds(st, cond) ==
    IF cond.status # "True"
    THEN [SecuredApplicationStatus EXCEPT !.cond = cond]
    ELSE [st EXCEPT !.cond = cond]

\* setCondition, lines 367-376: the status that is sent to the store
StatusWritten(st, cond) ==
    [st EXCEPT !.cond = cond, !.Ready = ReadyAfter(cond.status, @)]

\* variant: a rejected status write is not reported
StatusWriteResult_Swallow(ok, status) == ConditionResult(status)

\* setCondition, lines 377-383: a rejected status write returns its error
StatusWriteResult(ok, status) ==
    IF ok THEN ConditionResult(status)
    ELSE [RequeueAfter |-> 0, err |-> TRUE]

\* setCondition, lines 366-384: the one status write of a pass
setCondition ==
    /\ pc = "setCondition"
    /\ LET st == StatusWritten(app.status, loc.cond)
       IN  /\ app' = [app EXCEPT !.status = st]
           /\ \E ok \in WriteOutcomes :
                 /\ obj' = IF ok THEN [obj EXCEPT !.status = st] ELSE obj
                 /\ Log(Call("StatusUpdate", NoId, StoreResp(ok), ~ok, NoId,
                             NoSecret))
                 /\ result' = StatusWriteResult(ok, loc.cond.status)
    /\ pc' = "idle"
    /\ UNCHANGED <<stale, remote, cluster, app0, loc, passes, ctx, created, peer>>

\* -------------------------------------------------------------- the user
\* kubectl delete: with the marker the object is only marked for removal,
\* without it the object is gone at once
MarkForRemoval ==
    /\ obj.exists
    /\ ~obj.deleting
    /\ obj' = IF obj.finalizer THEN [obj EXCEPT !.deleting = TRUE]
              ELSE [obj EXCEPT !.exists = FALSE]
    /\ stale' = TRUE
    /\ UNCHANGED <<remote, cluster, pc, app, app0, loc, calls, result, passes, ctx,
                   created, peer>>

\* the context handed to Reconcile is cancelled while the pass runs
Cancel ==
    /\ pc # "idle"
    /\ ctx = "live"
    /\ ~Calm
    /\ ctx' = "cancelled"
    /\ UNCHANGED <<obj, stale, remote, cluster, pc, app, app0, loc, calls,
                   result, passes, created, peer>>

Next ==
    \/ Get
    \/ DeleteAppStep
    \/ DeleteAccessAppStep
    \/ RemoveFinalizer
    \/ AddFinalizer
    \/ GetProjectByNameStep
    \/ ListProjectRolesStep
    \/ UpdateAppStep
    \/ GetAppByNameStep
    \/ CreateAppStep
    \/ writeCredentialSecret
    \/ FindAccessAppByDomainStep
    \/ UpdateAccessAppStep
    \/ CreateAccessAppStep
    \/ UpsertAccessPolicyStep
    \/ reconcileIngress
    \/ setCondition
    \/ MarkForRemoval
    \/ Cancel

Spec == Init /\ [][Next]_vars

\* ------------------------------------------------------ two descriptors
\* a whole successful convergence pass of the second descriptor: it adopts
\* or creates its OIDC application by metadata.name (reconcileZitadelApp,
\* lines 205 and 252-264) and its access application by spec.host
\* (Reconcile, lines 149-168), creates its policy and records the IDs
PeerReconcile ==
    /\ pc \in {"idle", "GetProjectByName", "FindAccessAppByDomain",
               "UpsertAccessPolicy"}
    /\ peer.present
    /\ peer.status.ZitadelAppID = NoId
    /\ zProject # NoId
    /\ FirstMissing(SpecRoles, zRoles) = 0
    /\ LET cfg == [Name |-> peer.name, RedirectURIs |-> peer.host]
           zHits == AppsByName(zApps, zProject, peer.name)
           zFound == IF zHits = {} THEN {NoId} ELSE {a.id : a \in zHits}
           cfHits == AppsByDomain(cfApps, peer.host)
           cfFound == IF cfHits = {} THEN {NoId} ELSE {a.id : a \in cfHits}
       IN  \E zExisting \in zFound, cfExisting \in cfFound :
           LET zNext == AfterGetAppByName(zExisting)
               cfNext == AfterFind(cfExisting)
               zId == IF zNext = "CreateApp" THEN nextId.z ELSE zExisting
               cfId == IF cfNext = "CreateAccessApp" THEN nextId.cf
                       ELSE cfExisting
           IN  /\ zApps' = IF zNext = "CreateApp"
                           THEN zApps \cup {ZApp(zId, zProject, peer.name, cfg)}
                           ELSE {IF a.id = zId THEN [a EXCEPT !.cfg = cfg]
                                 ELSE a : a \in zApps}
               /\ cfApps' = IF cfNext = "CreateAccessApp"
                            THEN cfApps \cup {[id |-> cfId, domain |-> peer.host,
                                               name |-> peer.name]}
                            ELSE {IF a.id = cfId
                                  THEN [a EXCEPT !.name = peer.name,
                                                 !.domain = peer.host]
                                  ELSE a : a \in cfApps}
               /\ cfPolicies' = cfPolicies \cup
                     {[id |-> nextId.pol, app |-> cfId,
                       rules |-> Rules(SpecRoles)]}
               /\ nextId' = [z |-> IF zNext = "CreateApp" THEN nextId.z + 1
                                   ELSE nextId.z,
                             cf |-> IF cfNext = "CreateAccessApp"
                                    THEN nextId.cf + 1 ELSE nextId.cf,
                             pol |-> nextId.pol + 1]
               /\ peer' = [peer EXCEPT
                             !.status = [ZitadelAppID |-> zId,
                                         AccessApplicationID |-> cfId,
                                         AccessPolicyID |-> nextId.pol]]
    /\ UNCHANGED <<obj, stale, zProject, zRoles, cluster, pc, app, app0, loc,
                   calls, result, passes, ctx, created>>

\* the second descriptor has the first one's name, or its host, or neither
PairInit ==
    /\ InitOne
    /\ ~obj.spec.DeleteProtection
    /\ ~obj.spec.Ingress.set
    /\ zProject = ProjectIdOf
    /\ zRoles = Range(SpecRoles)
    /\ peer \in {Peer(AppName, "c.example.com"), Peer("peer", SpecHost),
                 Peer("peer", "c.example.com")}

PairNext ==
    \/ Next
    \/ PeerReconcile

PairSpec == PairInit /\ [][PairNext]_vars

\* ------------------------------------------------------------ spec edits
\* the role lists the user may put in place of the first one
EditedRoles == {<<"viewer">>, <<"viewer", "admin">>}

\* kubectl edit: the user replaces spec.access.roles, once
EditRoles ==
    /\ obj.exists
    /\ ~obj.deleting
    /\ obj.spec.Roles = SpecRoles
    /\ \E roles \in EditedRoles :
          obj' = [obj EXCEPT !.spec.Roles = roles]
    /\ stale' = TRUE
    /\ UNCHANGED <<remote, cluster, pc, app, app0, loc, calls, result, passes,
                   ctx, peer, created>>

EditInit ==
    /\ Init
    /\ zProject = ProjectIdOf
    /\ zRoles = Range(SpecRoles)

EditNext ==
    \/ Next
    \/ EditRoles

EditSpec == EditInit /\ [][EditNext]_vars

\* kubectl delete while another controller's marker holds the object and
\* this controller's marker is not on it yet: the object stays, marked for
\* removal
MarkHeld ==
    /\ obj.exists
    /\ ~obj.deleting
    /\ ~obj.finalizer
    /\ obj' = [obj EXCEPT !.deleting = TRUE]
    /\ stale' = TRUE
    /\ UNCHANGED <<remote, cluster, pc, app, app0, loc, calls, result, passes,
                   ctx, peer, created>>

HeldNext ==
    \/ Next
    \/ MarkHeld

HeldSpec == Init /\ [][HeldNext]_vars

\* the descriptor with any of the spec.oidc sections, in a converging
\* environment
NamingInit ==
    /\ \E oidc \in OIDCChoices : InitWith(oidc)
    /\ peer = NoPeer
    /\ zProject = ProjectIdOf
    /\ zRoles = Range(SpecRoles)

NamingSpec == NamingInit /\ [][Next]_vars

\* kubectl edit: the user makes spec.access.project name the other project
EditProject ==
    /\ obj.exists
    /\ ~obj.deleting
    /\ obj.spec.Project = SpecProject
    /\ obj' = [obj EXCEPT !.spec.Project = OtherProject]
    /\ stale' = TRUE
    /\ UNCHANGED <<remote, cluster, pc, app, app0, loc, calls, result, passes,
                   ctx, peer, created>>

ProjectNext ==
    \/ Next
    \/ EditProject

ProjectSpec == EditInit /\ [][ProjectNext]_vars

\* ------------------------------------------------- re-runs without end
\* the runtime runs the pass again: after a failure (requeue), on a resync,
\* on a watch event.  From pass MaxPasses + 1 on the count stays put.
Requeue ==
    /\ pc = "idle"
    /\ passes' = IF passes < MaxPasses THEN passes + 1 ELSE MaxPasses + 1
    /\ calls' = <<>>
    /\ result' = NoResult
    /\ app' = obj
    /\ app0' = obj
    /\ loc' = Locals(obj)
    /\ stale' = FALSE
    /\ ctx' = "live"
    /\ pc' = IF obj.exists THEN AfterGet(obj) ELSE "idle"
    /\ UNCHANGED <<obj, remote, cluster, created, peer>>

\* a descriptor that can converge: its project and all its roles exist
LiveInit ==
    /\ Init
    /\ zProject = ProjectIdOf
    /\ \A r \in Range(obj.spec.Roles) : r \in zRoles

ConvergenceStep ==
    \/ AddFinalizer
    \/ GetProjectByNameStep
    \/ ListProjectRolesStep
    \/ UpdateAppStep
    \/ GetAppByNameStep
    \/ CreateAppStep
    \/ writeCredentialSecret
    \/ FindAccessAppByDomainStep
    \/ UpdateAccessAppStep
    \/ CreateAccessAppStep
    \/ UpsertAccessPolicyStep
    \/ reconcileIngress
    \/ setCondition

LiveNext ==
    \/ Requeue
    \/ ConvergenceStep
    \/ Cancel

\* every call returns, and the runtime keeps re-running the pass
LiveSpec ==
    /\ LiveInit
    /\ [][LiveNext]_vars
    /\ WF_vars(Requeue)
    /\ WF_vars(ConvergenceStep)

\* ------------------------------------------- out-of-band deletion (drift)
\* an operator deletes, in the external system, an object whose identifier
\* the status records (the identifiers written at lines 193-198)
DeleteOutOfBand ==
    /\ obj.exists
    /\ \/ /\ \E a \in zApps : a.id = obj.status.ZitadelAppID
          /\ zApps' = {a \in zApps : a.id # obj.status.ZitadelAppID}
          /\ UNCHANGED <<cfApps, cfPolicies>>
       \/ /\ \E a \in cfApps : a.id = obj.status.AccessApplicationID
          /\ cfApps' = {a \in cfApps : a.id # obj.status.AccessApplicationID}
          /\ cfPolicies' = {q \in cfPolicies :
                               q.app # obj.status.AccessApplicationID}
          /\ zApps' = zApps
       \/ /\ \E q \in cfPolicies : q.id = obj.status.AccessPolicyID
          /\ cfPolicies' = {q \in cfPolicies :
                               q.id # obj.status.AccessPolicyID}
          /\ UNCHANGED <<zApps, cfApps>>
    /\ UNCHANGED <<obj, stale, zProject, zRoles, nextId, cluster, pc, app,
                   app0, loc, calls, result, passes, ctx, created, peer>>

DriftNext ==
    \/ LiveNext
    \/ DeleteOutOfBand

DriftSpec ==
    /\ LiveInit
    /\ [][DriftNext]_vars
    /\ WF_vars(Requeue)
    /\ WF_vars(ConvergenceStep)

TypeOK ==
    /\ pc \in {"idle", "DeleteApp", "DeleteAccessApp", "RemoveFinalizer",
               "AddFinalizer", "GetProjectByName", "ListProjectRoles",
               "UpdateApp", "GetAppByName", "CreateApp",
               "writeCredentialSecret", "FindAccessAppByDomain",
               "UpdateAccessApp", "CreateAccessApp", "UpsertAccessPolicy",
               "reconcileIngress", "setCondition"}
    /\ passes \in 0..(MaxPasses + 1)

\* ------------------------------------------------------------ properties
Idx == 1..Len(calls)
Issued(op) == \E i \in Idx : calls[i].op = op
Succeeded(op) == \E i \in Idx : calls[i].op = op /\ ~calls[i].err
DeleteOps == {"DeleteApp", "DeleteAccessApp"}
MutatingOps == {"CreateApp", "UpdateApp", "CreateAccessApp",
                "UpdateAccessApp", "CreatePolicy", "UpdatePolicy",
                "writeCredentialSecret", "reconcileIngress"}

\* C1 (role-gate ordering): in a pass in which ListProjectRoles returned and
\* some requested role is not among the returned keys, no create/update/upsert
\* call and no credential or route write has been issued, the pass goes
\* straight to the status write, and it ends with reason RoleNotFound.
RoleGateCase ==
    /\ Succeeded("ListProjectRoles")
    /\ \E r \in Range(app0.spec.Roles) : r \notin zRoles

C1_RoleGate ==
    RoleGateCase =>
        /\ \A i \in Idx : calls[i].op \notin MutatingOps
        /\ pc \in {"setCondition", "idle"}
        /\ loc.cond.status = "False"
        /\ loc.cond.reason = "RoleNotFound"
        /\ pc = "idle" => /\ app.status.cond.reason = "RoleNotFound"
                          /\ ~app.status.Ready

C1_Witness ==
    /\ RoleGateCase
    /\ pc = "idle"
    /\ "admin" \in zRoles
    /\ obj.status.cond.reason = "RoleNotFound"

\* C2 (secret single-emission): the credential object is written only in a
\* pass that called CreateApp and got a non-empty secret back; never in a pass
\* that updated a known ID or adopted an application found by name.
C2_SecretSingleEmission ==
    \A i \in Idx :
        calls[i].op = "writeCredentialSecret" =>
            /\ \E j \in 1..(i-1) : /\ calls[j].op = "CreateApp"
                                   /\ ~calls[j].err
                                   /\ calls[j].secret # NoSecret
                                   /\ calls[i].secret = calls[j].secret
            /\ ~Issued("UpdateApp")
            /\ app0.status.ZitadelAppID = NoId
            /\ \A j \in Idx : calls[j].op = "GetAppByName" =>
                                 calls[j].ret = NoId

C2_Witness ==
    /\ Succeeded("writeCredentialSecret")
    /\ k8sSecret.exists
    /\ k8sSecret.clientSecret # NoSecret

\* C3 (delete is idempotent): a DeleteApp or DeleteAccessApp call that the
\* remote answers with not-found returns success.
C3_DeleteIsIdempotent ==
    \A i \in Idx :
        (calls[i].op \in DeleteOps /\ calls[i].code = 404) => ~calls[i].err

\* C4 (teardown with protection): a pass on a descriptor marked for removal,
\* carrying the marker, with deleteProtection set, issues no delete call
\* whatever IDs the status holds; its only step is the marker-removing write,
\* and once the store accepts that write the marker is gone.
ProtectedTeardown ==
    /\ app0.exists /\ app0.deleting /\ app0.finalizer
    /\ app0.spec.DeleteProtection

C4_TeardownWithProtection ==
    ProtectedTeardown =>
        /\ \A i \in Idx : calls[i].op \notin DeleteOps
        /\ pc \in {"RemoveFinalizer", "idle"}
        /\ pc = "idle" =>
              /\ Len(calls) = 1
              /\ calls[1].op = "RemoveFinalizer"
              /\ ~calls[1].err => ~obj.exists
              /\ ~app.finalizer

C4_Witness ==
    /\ ProtectedTeardown
    /\ pc = "idle"
    /\ Succeeded("RemoveFinalizer")
    /\ app0.status.ZitadelAppID # NoId
    /\ app0.status.AccessApplicationID # NoId
    /\ ~obj.exists

\* C5 (teardown without protection): with deleteProtection off, the marker is
\* removed only in a pass in which, for every external ID set in status, the
\* matching delete call was issued before and returned success.
C5_TeardownWithoutProtection ==
    \A i \in Idx :
        (calls[i].op = "RemoveFinalizer" /\ ~calls[i].err
            /\ ~app0.spec.DeleteProtection) =>
            /\ app0.status.ZitadelAppID # NoId =>
                  \E j \in 1..(i-1) :
                     /\ calls[j].op = "DeleteApp"
                     /\ calls[j].id = app0.status.ZitadelAppID
                     /\ ~calls[j].err
            /\ app0.status.AccessApplicationID # NoId =>
                  \E j \in 1..(i-1) :
                     /\ calls[j].op = "DeleteAccessApp"
                     /\ calls[j].id = app0.status.AccessApplicationID
                     /\ ~calls[j].err

C5_Witness ==
    /\ Succeeded("RemoveFinalizer")
    /\ ~app0.spec.DeleteProtection
    /\ app0.status.ZitadelAppID # NoId
    /\ app0.status.AccessApplicationID # NoId
    /\ ~obj.exists

\* C6 (failing delete keeps the marker): a delete call that fails is the last
\* call of its pass; the marker is still on the stored descriptor, the pass
\* wrote neither the object nor its status, and a retry is scheduled.
C6_FailedDeleteKeepsMarker ==
    \A i \in Idx :
        (calls[i].op \in DeleteOps /\ calls[i].err) =>
            /\ i = Len(calls)
            /\ pc = "idle"
            /\ obj.exists /\ obj.finalizer
            /\ ~Issued("RemoveFinalizer")
            /\ ~Issued("StatusUpdate")
            /\ obj.status = app0.status
            /\ result.RequeueAfter > 0
            /\ ~result.err

C6_Witness ==
    /\ \E i \in Idx : /\ calls[i].op = "DeleteAccessApp"
                      /\ calls[i].err
    /\ Succeeded("DeleteApp")
    /\ obj.finalizer

\* C7 (teardown completeness): once a teardown with deleteProtection off has
\* removed the marker, no OIDC application and no access application that a
\* pass of this descriptor created still exists.
C7_TeardownCompleteness ==
    (Succeeded("RemoveFinalizer") /\ ~app0.spec.DeleteProtection) =>
        /\ \A a \in zApps : a.id \notin created.z
        /\ \A a \in cfApps : a.id \notin created.cf

\* C8 (access-application adoption precedence): CreateAccessApp is called only
\* when status held no access-application ID and the lookup by domain of this
\* pass returned no match; after a lookup that returned a match the pass calls
\* UpdateAccessApp on the found ID, never CreateAccessApp, and a successful
\* pass records the found ID in status.
C8_AdoptionPrecedence ==
    /\ \A i \in Idx :
          calls[i].op = "CreateAccessApp" =>
             /\ app0.status.AccessApplicationID = NoId
             /\ \E j \in 1..(i-1) : /\ calls[j].op = "FindAccessAppByDomain"
                                    /\ ~calls[j].err
                                    /\ calls[j].ret = NoId
    /\ \A j \in Idx :
          (calls[j].op = "FindAccessAppByDomain" /\ calls[j].ret # NoId) =>
             /\ ~Issued("CreateAccessApp")
             /\ pc # "UpdateAccessApp" =>
                   /\ j < Len(calls)
                   /\ calls[j+1].op = "UpdateAccessApp"
                   /\ calls[j+1].id = calls[j].ret
             /\ (Succeeded("StatusUpdate") /\ loc.cond.status = "True") =>
                   obj.status.AccessApplicationID = calls[j].ret

C8_Witness ==
    /\ \E j \in Idx : /\ calls[j].op = "FindAccessAppByDomain"
                      /\ calls[j].ret = PreCfAppId
    /\ Succeeded("StatusUpdate")
    /\ loc.cond.status = "True"
    /\ obj.status.AccessApplicationID = PreCfAppId

\* C9 (no duplicate OIDC application): CreateApp is never called while an
\* application named after the descriptor exists in the resolved project, and
\* at most one such application exists per project.
SameNamed(project) ==
    {a \in zApps : a.name = AppName /\ a.project = project}

CreateAppCalled ==
    /\ Len(calls') = Len(calls) + 1
    /\ calls'[Len(calls')].op = "CreateApp"

C9_NoDuplicateOIDCApp ==
    /\ [](Cardinality(SameNamed(ProjectIdOf)) <= 1)
    /\ [][CreateAppCalled => SameNamed(loc.project) = {}]_vars

C9_Witness ==
    /\ Succeeded("CreateApp")
    /\ passes > 1
    /\ Cardinality(SameNamed(ProjectIdOf)) = 1

\* C10 (no duplicate access policy): for any access application the passes
\* of the descriptor issue at most one successful policy-create call.
C10_NoDuplicatePolicy ==
    \A p \in created.pol, q \in created.pol : p[2] = q[2] => p = q

\* ---------------------------------------------------------------------
Last == calls[Len(calls)]
PolicyOps == {"CreatePolicy", "UpdatePolicy"}
CreateOps == {"CreateApp", "CreateAccessApp", "CreatePolicy"}
UpdateOps == {"UpdateApp", "UpdateAccessApp", "UpdatePolicy"}
StoreOps == {"AddFinalizer", "RemoveFinalizer", "StatusUpdate"}
\* the pass ended with an accepted status write of the success condition
PassSucceeded ==
    /\ pc = "idle"
    /\ Succeeded("StatusUpdate")
    /\ loc.cond.status = "True"
\* a convergence pass that started from a persisted ready status
SteadyPass ==
    /\ passes > 0
    /\ app0.exists /\ ~app0.deleting
    /\ app0.status.Ready

\* C11, as stated (idempotent convergence, calls): a pass that starts from
\* the status of a successful pass issues no create, update, upsert or delete
\* call on the OIDC application, the access application or the policy.
C11_NoMutatingCalls ==
    SteadyPass =>
        \A i \in Idx : calls[i].op \notin (CreateOps \cup UpdateOps \cup DeleteOps)

\* C11, amended: such a pass issues no create call, no delete call and no
\* credential write; its only adapter mutations are in-place updates of the
\* objects recorded in status (UpdateApp answered "No changes"), and no
\* external object changes while it runs.
C11_OnlyInPlaceUpdates ==
    /\ [](SteadyPass =>
            \A i \in Idx :
               /\ calls[i].op \notin (CreateOps \cup DeleteOps)
               /\ calls[i].op \notin {"writeCredentialSecret", "GetAppByName",
                                      "FindAccessAppByDomain"}
               /\ calls[i].op = "UpdateApp" =>
                     /\ calls[i].id = app0.status.ZitadelAppID
                     /\ ~calls[i].err => calls[i].code = 400
               /\ calls[i].op = "UpdateAccessApp" =>
                     calls[i].id = app0.status.AccessApplicationID
               /\ (calls[i].op = "UpdatePolicy" /\ ~calls[i].err) =>
                     calls[i].ret = app0.status.AccessPolicyID)
    /\ [][SteadyPass => UNCHANGED <<zApps, cfApps, cfPolicies>>]_vars

C11_Witness ==
    /\ SteadyPass
    /\ PassSucceeded
    /\ Succeeded("UpdateApp")
    /\ Succeeded("UpdateAccessApp")
    /\ Succeeded("UpdatePolicy")

\* C12 (idempotent convergence, status): when a pass that started from the
\* status of a successful pass succeeds in turn, the persisted status (the
\* five IDs, ready, and the condition's status, reason and message) equals
\* the status the pass started from.
C12_StatusIdempotent ==
    (SteadyPass /\ PassSucceeded) => obj.status = app0.status

C12_Witness ==
    /\ SteadyPass
    /\ PassSucceeded
    /\ obj.status.ClientID # NoId
    /\ obj.status.cond.message = "All resources are up to date"

\* C13 (ready implies complete): a persisted ready status always carries the
\* condition True/Reconciled and four non-empty IDs, and the pass that wrote
\* it had every step succeed and wrote the IDs it obtained.
ObtainedBy(ops, useId) ==
    {IF calls[i].op \in useId THEN calls[i].id ELSE calls[i].ret :
        i \in {j \in Idx : calls[j].op \in ops /\ ~calls[j].err}}

C13_ReadyImpliesComplete ==
    /\ obj.status.Ready =>
          /\ obj.status.cond.status = "True"
          /\ obj.status.cond.reason = "Reconciled"
          /\ obj.status.ProjectID # NoId
          /\ obj.status.ZitadelAppID # NoId
          /\ obj.status.AccessApplicationID # NoId
          /\ obj.status.AccessPolicyID # NoId
    /\ (Succeeded("StatusUpdate") /\ obj.status.Ready) =>
          /\ \A i \in Idx : ~calls[i].err
          /\ Succeeded("ListProjectRoles")
          /\ Succeeded("reconcileIngress")
          /\ ObtainedBy({"GetProjectByName"}, {}) = {obj.status.ProjectID}
          /\ ObtainedBy({"CreateApp", "UpdateApp"}, {"UpdateApp"})
                = {obj.status.ZitadelAppID}
          /\ ObtainedBy({"CreateAccessApp", "UpdateAccessApp"},
                        {"UpdateAccessApp"})
                = {obj.status.AccessApplicationID}
          /\ ObtainedBy(PolicyOps, {}) = {obj.status.AccessPolicyID}

C13_Witness ==
    /\ obj.status.Ready
    /\ PassSucceeded
    /\ Succeeded("CreateApp")
    /\ Succeeded("writeCredentialSecret")

\* C14 (failure short-circuit): a convergence step that fails is followed by
\* no other step; the pass goes to the status write, which carries ready=false
\* and a False condition with the reason of the failed step.
ReasonOf(c) ==
    CASE c.op = "GetProjectByName" ->
            IF c.err THEN "ProjectLookupFailed" ELSE "ProjectNotFound"
      [] c.op = "ListProjectRoles" ->
            IF c.err THEN "RoleLookupFailed" ELSE "RoleNotFound"
      [] c.op \in {"UpdateApp", "GetAppByName", "CreateApp"} ->
            "ZitadelAppFailed"
      [] c.op = "writeCredentialSecret" -> "SecretFailed"
      [] c.op = "FindAccessAppByDomain" -> "CloudflareLookupFailed"
      [] c.op = "UpdateAccessApp" -> "CloudflareUpdateFailed"
      [] c.op = "CreateAccessApp" -> "CloudflareCreateFailed"
      [] c.op \in PolicyOps -> "PolicyFailed"
      [] c.op = "reconcileIngress" -> "IngressFailed"
      [] OTHER -> "none"

StepFailed(c) ==
    /\ c.op \notin (StoreOps \cup DeleteOps)
    /\ \/ c.err
       \/ c.op = "GetProjectByName" /\ c.ret = NoId
       \/ c.op = "ListProjectRoles" /\
             \E r \in Range(app0.spec.Roles) : r \notin zRoles

C14_FailureShortCircuit ==
    \A i \in Idx :
        StepFailed(calls[i]) =>
            \/ /\ i = Len(calls)
               /\ pc = "setCondition"
               /\ loc.cond.status = "False"
               /\ loc.cond.reason = ReasonOf(calls[i])
            \/ /\ i = Len(calls) - 1
               /\ pc = "idle"
               /\ Last.op = "StatusUpdate"
               /\ ~app.status.Ready
               /\ app.status.cond.status = "False"
               /\ app.status.cond.reason = ReasonOf(calls[i])
               /\ ~Last.err => obj.status = app.status

C14_Witness ==
    /\ pc = "idle"
    /\ \E i \in Idx : calls[i].op = "CreatePolicy" /\ calls[i].err
    /\ Succeeded("CreateAccessApp")
    /\ obj.status.cond.reason = "PolicyFailed"
    /\ ~obj.status.Ready

\* C15 (status follows side effects): when a pass that created an OIDC
\* application, an access application or a policy has written its status,
\* the persisted status holds the ID of each created object, also when a
\* later step of the pass failed.
C15_StatusFollowsSideEffects ==
    (pc = "idle" /\ Succeeded("StatusUpdate")) =>
        \A i \in Idx :
            ~calls[i].err =>
               /\ calls[i].op = "CreateApp" =>
                     obj.status.ZitadelAppID = calls[i].ret
               /\ calls[i].op = "CreateAccessApp" =>
                     obj.status.AccessApplicationID = calls[i].ret
               /\ calls[i].op = "CreatePolicy" =>
                     obj.status.AccessPolicyID = calls[i].ret

\* C16 (marker before work): a pass on a descriptor not marked for removal
\* that read it without the marker first writes the marker; when that write
\* fails the pass issues no other call; every other call of the pass finds
\* the marker on the stored descriptor, and no external object is created
\* while the stored descriptor lacks the marker.
C16_MarkerBeforeWork ==
    /\ []((passes > 0 /\ app0.exists /\ ~app0.deleting /\ calls # <<>>) =>
            /\ ~app0.finalizer =>
                  /\ calls[1].op = "AddFinalizer"
                  /\ calls[1].err => (Len(calls) = 1 /\ pc = "idle")
            /\ Len(calls) > 1 => (obj.exists /\ obj.finalizer)
            /\ \A i \in Idx : calls[i].op \notin StoreOps =>
                                 (obj.exists /\ obj.finalizer))
    /\ [][created' # created => (obj.exists /\ obj.finalizer)]_vars

C16_Witness ==
    /\ ~app0.finalizer
    /\ Len(calls) > 1
    /\ calls[1].op = "AddFinalizer"
    /\ Succeeded("CreateApp")
    /\ obj.finalizer

\* C17 (cancellation): when the context of a convergence pass is cancelled
\* and an adapter call ends without a response for it, the pass issues no
\* status write and schedules no retry.
AdapterCallCancelled ==
    \E i \in Idx : calls[i].op \notin StoreOps /\ calls[i].code = Cancelled.code

C17_CancellationIsSilent ==
    (ctx = "cancelled" /\ app0.exists /\ ~app0.deleting /\ AdapterCallCancelled)
        => /\ ~Issued("StatusUpdate")
           /\ result.RequeueAfter = 0

\* C18 (cluster-native objects): the credential object and the route object
\* always name the descriptor as their controlling owner, and no step of any
\* pass removes either of them.
C18_ClusterObjectsOwned ==
    /\ [](/\ k8sSecret.exists => k8sSecret.owner = AppName
          /\ k8sIngress.exists => k8sIngress.owner = AppName)
    /\ [][/\ k8sSecret.exists => k8sSecret'.exists
          /\ k8sIngress.exists => k8sIngress'.exists]_vars

C18_Witness ==
    /\ k8sSecret.exists
    /\ k8sIngress.exists
    /\ Succeeded("RemoveFinalizer")
    /\ ~obj.exists

IssuedSecrets == {SecretOf(id) : id \in created.z}

C20_SecretConfinement ==
    /\ obj.status.ProjectID \notin IssuedSecrets
    /\ obj.status.ZitadelAppID \notin IssuedSecrets
    /\ obj.status.ClientID \notin IssuedSecrets
    /\ obj.status.AccessApplicationID \notin IssuedSecrets
    /\ obj.status.AccessPolicyID \notin IssuedSecrets
    /\ obj.status.cond.reason \in
          {"", "Reconciled", "ProjectLookupFailed", "ProjectNotFound",
           "RoleLookupFailed", "RoleNotFound", "ZitadelAppFailed",
           "SecretFailed", "CloudflareLookupFailed", "CloudflareUpdateFailed",
           "CloudflareCreateFailed", "PolicyFailed", "IngressFailed"}
    /\ obj.status.cond.message \in
          {"", "All resources are up to date", "Zitadel project not found",
           "role does not exist", "error"}
    /\ k8sSecret.exists => k8sSecret.clientId \notin IssuedSecrets

C20_Witness ==
    /\ k8sSecret.exists
    /\ k8sSecret.clientSecret \in IssuedSecrets
    /\ obj.status.Ready
    /\ obj.status.ZitadelAppID \in created.z
    /\ obj.status.ClientID = ClientIdOf(obj.status.ZitadelAppID)

\* C21 (convergence liveness): for a descriptor that is never marked for
\* removal and whose project and roles exist, once calls stop failing and the
\* pass keeps being re-run, the persisted status becomes ready and stays
\* ready.
C21_ConvergenceLiveness == <>[](obj.status.Ready)

C21_Witness ==
    /\ Calm
    /\ obj.status.Ready
    /\ pc = "idle"
    /\ Succeeded("StatusUpdate")
    /\ app0.status.Ready
    /\ Cardinality(created.pol) > 1

\* C22 (cross-instance independence): the teardown of one descriptor never
\* deletes an OIDC application or an access application whose ID is recorded
\* in the status of another descriptor that is not marked for removal.
C22_CrossInstanceIndependence ==
    \A i \in Idx :
        (peer.present /\ ~calls[i].err) =>
            /\ calls[i].op = "DeleteApp" =>
                  calls[i].id # peer.status.ZitadelAppID
            /\ calls[i].op = "DeleteAccessApp" =>
                  calls[i].id # peer.status.AccessApplicationID

\* the pass ended at call i: nothing but the status write follows it, the
\* recorded condition is False with the given reason, and the pass asks for
\* a retry (a delay when the status write was accepted, its error otherwise)
EndsAt(i, reason) ==
    /\ loc.cond.status = "False"
    /\ loc.cond.reason = reason
    /\ \/ i = Len(calls) /\ pc = "setCondition"
       \/ /\ i = Len(calls) - 1
          /\ pc = "idle"
          /\ Last.op = "StatusUpdate"
          /\ IF Last.err THEN result.err
             ELSE /\ result.RequeueAfter = FailureRequeue
                  /\ obj.status.cond.reason = reason
                  /\ ~obj.status.Ready

\* C23 (project resolution outcomes): the pass records ProjectNotFound
\* exactly when GetProjectByName returned no project and no error, and
\* ProjectLookupFailed exactly when it returned an error; in both cases no
\* later step runs and a retry is asked for.
C23_ProjectOutcomes ==
    /\ \A i \in Idx :
          calls[i].op = "GetProjectByName" =>
             /\ calls[i].err => EndsAt(i, "ProjectLookupFailed")
             /\ (~calls[i].err /\ calls[i].ret = NoId) =>
                   EndsAt(i, "ProjectNotFound")
             /\ (~calls[i].err /\ calls[i].ret # NoId) =>
                   loc.cond.reason \notin {"ProjectNotFound",
                                           "ProjectLookupFailed"}
    /\ loc.cond.reason \in {"ProjectNotFound", "ProjectLookupFailed"} =>
          Issued("GetProjectByName")

C23_Witness ==
    /\ pc = "idle"
    /\ zProject = NoId
    /\ Succeeded("GetProjectByName")
    /\ obj.status.cond.reason = "ProjectNotFound"
    /\ result.RequeueAfter = FailureRequeue

\* C24 (OIDC application branch selection): with a recorded application ID
\* the pass calls UpdateApp on it and neither GetAppByName nor CreateApp;
\* without one it looks the name up, calls UpdateApp on the application found
\* (never CreateApp) and records that application's ID and client ID when
\* the pass succeeds; CreateApp is called only after a lookup that found
\* nothing.
Follows(i, op) ==
    \/ i = Len(calls) /\ pc = op
    \/ i < Len(calls) /\ calls[i+1].op = op

C24_BranchSelection ==
    /\ \A i \in Idx :
          /\ (calls[i].op = "ListProjectRoles" /\ ~StepFailed(calls[i])) =>
                IF app0.status.ZitadelAppID # NoId
                THEN Follows(i, "UpdateApp") ELSE Follows(i, "GetAppByName")
          /\ (calls[i].op = "GetAppByName" /\ ~calls[i].err) =>
                IF calls[i].ret # NoId
                THEN Follows(i, "UpdateApp") ELSE Follows(i, "CreateApp")
          /\ calls[i].op = "GetAppByName" =>
                app0.status.ZitadelAppID = NoId
          /\ calls[i].op = "UpdateApp" =>
                IF app0.status.ZitadelAppID # NoId
                THEN calls[i].id = app0.status.ZitadelAppID
                ELSE /\ i > 1
                     /\ calls[i-1].op = "GetAppByName"
                     /\ ~calls[i-1].err
                     /\ calls[i-1].ret # NoId
                     /\ calls[i].id = calls[i-1].ret
          /\ calls[i].op = "CreateApp" =>
                /\ app0.status.ZitadelAppID = NoId
                /\ i > 1
                /\ calls[i-1].op = "GetAppByName"
                /\ ~calls[i-1].err
                /\ calls[i-1].ret = NoId
    /\ PassSucceeded =>
          \A i \in Idx :
             (calls[i].op = "GetAppByName" /\ calls[i].ret # NoId) =>
                /\ obj.status.ZitadelAppID = calls[i].ret
                /\ obj.status.ClientID = ClientIdOf(calls[i].ret)

C24_Witness ==
    /\ PassSucceeded
    /\ Succeeded("GetAppByName")
    /\ Succeeded("UpdateApp")
    /\ ~Issued("CreateApp")
    /\ obj.status.ZitadelAppID = PreZAppId
    /\ obj.status.ClientID = ClientIdOf(PreZAppId)

\* C25 (policy rule set): after a successful policy step the policy holds
\* exactly one rule per entry of the spec.access.roles the pass read, in the
\* same order, each with the configured identity-provider ID, the fixed claim
\* name and the role as claim value; no rule of an earlier role list is left.
PolicyOf(c) == {p \in cfPolicies : p.id = c.ret /\ p.app = c.id}

C25_PolicyRuleSet ==
    \A i \in Idx :
        (calls[i].op \in PolicyOps /\ ~calls[i].err) =>
            /\ PolicyOf(calls[i]) # {}
            /\ \A p \in PolicyOf(calls[i]) :
                  /\ Len(p.rules) = Len(app0.spec.Roles)
                  /\ \A k \in 1..Len(p.rules) :
                        /\ p.rules[k].IdentityProviderID = CloudflareIdPID
                        /\ p.rules[k].ClaimName = roleClaimName
                        /\ p.rules[k].ClaimValue = app0.spec.Roles[k]

C25_Witness ==
    /\ Succeeded("UpdatePolicy")
    /\ pc = "idle"
    /\ app0.spec.Roles = <<"viewer">>
    /\ \E p \in cfPolicies :
          /\ p.id = app0.status.AccessPolicyID
          /\ Len(p.rules) = 1
          /\ p.rules[1].ClaimValue = "viewer"

\* C26 (pipeline order): the calls of a convergence pass occur strictly in
\* the order project lookup, role listing, OIDC application lookup then
\* update or create, credential write, access-application lookup then update
\* or create, policy upsert, route write, status write; a call of a later
\* step is issued only after every earlier step has returned successfully.
StepOf(op) ==
    CASE op = "AddFinalizer" -> <<0, 0>>
      [] op = "GetProjectByName" -> <<1, 0>>
      [] op = "ListProjectRoles" -> <<2, 0>>
      [] op = "GetAppByName" -> <<3, 0>>
      [] op \in {"UpdateApp", "CreateApp"} -> <<3, 1>>
      [] op = "writeCredentialSecret" -> <<4, 0>>
      [] op = "FindAccessAppByDomain" -> <<5, 0>>
      [] op \in {"UpdateAccessApp", "CreateAccessApp"} -> <<5, 1>>
      [] op \in PolicyOps -> <<6, 0>>
      [] op = "reconcileIngress" -> <<7, 0>>
      [] op = "StatusUpdate" -> <<8, 0>>
      [] OTHER -> <<0, 0>>

Before(a, b) ==
    \/ StepOf(a)[1] < StepOf(b)[1]
    \/ StepOf(a)[1] = StepOf(b)[1] /\ StepOf(a)[2] < StepOf(b)[2]

\* the calls that complete a step some later step depends on
Needs(op) ==
    LET n == StepOf(op)[1]
    IN  (IF n > 1 THEN {{"GetProjectByName"}} ELSE {})
        \cup (IF n > 2 THEN {{"ListProjectRoles"}} ELSE {})
        \cup (IF n > 3 THEN {{"UpdateApp", "CreateApp"}} ELSE {})
        \cup (IF n > 5 THEN {{"UpdateAccessApp", "CreateAccessApp"}} ELSE {})
        \cup (IF n > 6 THEN {PolicyOps} ELSE {})

C26_PipelineOrder ==
    (app0.exists /\ ~app0.deleting) =>
        /\ \A i, j \in Idx : i < j => Before(calls[i].op, calls[j].op)
        /\ \A j \in Idx :
              calls[j].op # "StatusUpdate" =>
                 /\ \A i \in 1..(j-1) : ~StepFailed(calls[i]) /\ ~calls[i].err
                 /\ \A ops \in Needs(calls[j].op) :
                       \E i \in 1..(j-1) : calls[i].op \in ops

C26_Witness ==
    /\ PassSucceeded
    /\ Len(calls) = 11
    /\ Succeeded("AddFinalizer")
    /\ Succeeded("writeCredentialSecret")
    /\ Succeeded("CreatePolicy")

PassEnded == pc = "idle" /\ passes > 0 /\ calls # <<>>
ConvergenceFailed == \E i \in Idx : StepFailed(calls[i])
DeleteFailed == \E i \in Idx : calls[i].op \in DeleteOps /\ calls[i].err
Retry(delay) == [RequeueAfter |-> delay, err |-> FALSE]

\* C27, as stated (scheduling decision): a pass that ends in a failed
\* convergence step returns a retry after one minute, a pass that ends in a
\* failed teardown delete returns a retry after 30 seconds, and a successful
\* convergence pass or a completed teardown returns no retry.
C27_SchedulingDecision ==
    PassEnded =>
        /\ ConvergenceFailed => result = Retry(FailureRequeue)
        /\ DeleteFailed => result = Retry(TeardownRequeue)
        /\ (PassSucceeded \/ Succeeded("RemoveFinalizer")) => result = NoResult

\* C27, amended: the one-minute retry is returned when the status write that
\* records the failure is accepted; when that write is rejected the pass
\* returns the write's error and no delay of its own.  A failed teardown
\* delete returns a retry after 30 seconds; a successful convergence pass and
\* a completed teardown return neither a delay nor an error.
C27_SchedulingByOutcome ==
    PassEnded =>
        /\ ConvergenceFailed =>
              /\ Last.op = "StatusUpdate"
              /\ result = IF Last.err THEN [RequeueAfter |-> 0, err |-> TRUE]
                          ELSE Retry(FailureRequeue)
        /\ DeleteFailed => result = Retry(TeardownRequeue)
        /\ (PassSucceeded \/ Succeeded("RemoveFinalizer")) => result = NoResult
        /\ result.RequeueAfter \in {0, TeardownRequeue, FailureRequeue}

C27_Witness ==
    /\ PassEnded
    /\ ConvergenceFailed
    /\ obj.exists /\ ~stale /\ ctx = "live"
    /\ Last.op = "StatusUpdate"
    /\ Last.err
    /\ result.err
    /\ result.RequeueAfter = 0

C29_NoInProgressStatus ==
    /\ [](\A i \in Idx :
             calls[i].op = "StatusUpdate" =>
                /\ i = Len(calls)
                /\ pc = "idle"
                /\ ~app0.deleting)
    /\ [][obj'.status # obj.status =>
             /\ pc = "setCondition"
             /\ pc' = "idle"
             /\ calls' = Append(calls, Last')
             /\ Last'.op = "StatusUpdate"]_vars

C29_Witness ==
    /\ PassEnded
    /\ Last.op = "StatusUpdate"
    /\ ~Last.err
    /\ Len(calls) > 3
    /\ obj.status # app0.status
    /\ ~obj.status.Ready

\* C30 (teardown liveness after partial teardown): a teardown pass without
\* delete protection that finds the recorded OIDC application already deleted
\* by an earlier pass, and whose calls all reach the external systems and the
\* store, removes the marker.
Reached(c) == c.code \notin {Unavailable.code, Cancelled.code, StoreResp(FALSE).code}

C30_TeardownResumes ==
    (/\ PassEnded
     /\ app0.exists /\ app0.deleting /\ app0.finalizer
     /\ ~app0.spec.DeleteProtection
     /\ NeedsDeleteApp(app0)
     /\ ~\E a \in zApps : a.id = app0.status.ZitadelAppID
     /\ \A i \in Idx : Reached(calls[i]))
        => Succeeded("RemoveFinalizer")

\* C31 (conflicted store writes): a marker write or status write that the
\* store rejects leaves the stored descriptor as it is and is the last call
\* of the pass, which ends with an error; the write is not issued a second
\* time from the same copy, and the next pass starts from a fresh read.
WriteRejected(i) == calls[i].op \in StoreOps /\ calls[i].err

C31_ConflictEndsPass ==
    /\ [](\A i \in Idx :
             WriteRejected(i) =>
                /\ i = Len(calls)
                /\ pc = "idle"
                /\ result.err
                /\ result.RequeueAfter = 0
                /\ \A j \in 1..(i-1) : calls[j].op # calls[i].op)
    /\ [][(calls' # calls /\ calls' # <<>> /\ Last'.op \in StoreOps) =>
             /\ stale => Last'.err
             /\ Last'.err => obj' = obj]_vars
    /\ [][(pc = "idle" /\ pc' # "idle") =>
             /\ app' = obj
             /\ app0' = obj
             /\ stale' = FALSE]_vars

C31_Witness ==
    /\ stale
    /\ obj.exists
    /\ pc = "idle"
    /\ Last.op = "StatusUpdate"
    /\ Last.err
    /\ result.err
    /\ obj.status = app0.status
    /\ app.status # obj.status

\* C32 (no-op update is success): an UpdateApp call that Zitadel rejects
\* with "No changes" returns no error, and the pass goes on to the step after
\* the OIDC application instead of reporting ZitadelAppFailed.
NoOpUpdate(i) == calls[i].op = "UpdateApp" /\ calls[i].code = NoChanges.code

C32_NoOpUpdateIsSuccess ==
    \A i \in Idx :
        NoOpUpdate(i) =>
           /\ ~calls[i].err
           /\ ~EndsAt(i, "ZitadelAppFailed")
           /\ \/ Follows(i, "FindAccessAppByDomain")
              \/ Follows(i, "UpdateAccessApp")

C32_Witness ==
    /\ PassSucceeded
    /\ \E i \in Idx : NoOpUpdate(i) /\ app0.status.ZitadelAppID = calls[i].id
    /\ obj.status.Ready

\* C33 (secret delivery under partial failure): whenever a pass creates the
\* OIDC application and receives its client secret, the credential object
\* eventually holds that secret, also when the credential write of the
\* creating pass fails and the pass is re-run.
SecretReceived(s) ==
    \E i \in Idx : /\ calls[i].op = "CreateApp"
                   /\ ~calls[i].err
                   /\ calls[i].secret = s
SecretHeld(s) == k8sSecret.exists /\ k8sSecret.clientSecret = s
AllSecrets == {SecretOf(id) : id \in 1..(MaxPasses + 2)}

C33_SecretDelivery ==
    \A s \in AllSecrets : [](SecretReceived(s) => <>SecretHeld(s))

\* C34 (recovery from a stale identifier): whenever the status records the
\* identifier of an OIDC application, access application or access policy
\* that no longer exists in its system, repeated passes eventually reach a
\* state in which every recorded identifier denotes an existing object and
\* the descriptor is ready.
StaleIdentifier ==
    \/ /\ obj.status.ZitadelAppID # NoId
       /\ ~\E a \in zApps : a.id = obj.status.ZitadelAppID
    \/ /\ obj.status.AccessApplicationID # NoId
       /\ ~\E a \in cfApps : a.id = obj.status.AccessApplicationID
    \/ /\ obj.status.AccessPolicyID # NoId
       /\ ~\E q \in cfPolicies : q.id = obj.status.AccessPolicyID

C34_StaleIdentifierRecovery ==
    [](StaleIdentifier => <>(~StaleIdentifier /\ obj.status.Ready))

\* C35 (project and application stay paired): every UpdateApp call passes,
\* with the application ID, the ID of the project that holds that
\* application, and so does every DeleteApp call, also after
\* spec.access.project was edited to name another project.
ProjectPassed(i) ==
    IF calls[i].op = "UpdateApp" THEN loc.project ELSE app0.status.ProjectID

C35_ProjectAppPaired ==
    \A i \in Idx :
        calls[i].op \in {"UpdateApp", "DeleteApp"} =>
           \A a \in zApps : a.id = calls[i].id => a.project = ProjectPassed(i)

\* C36 (failure leaves identifiers unchanged): a pass that ends in a failed
\* convergence step changes nothing of the stored status but the ready flag
\* and the Ready condition; the five identifiers keep the values they had
\* when the pass started.
Identifiers(st) ==
    <<st.ProjectID, st.ZitadelAppID, st.ClientID, st.AccessApplicationID,
      st.AccessPolicyID>>

C36_FailureKeepsIdentifiers ==
    /\ [](ConvergenceFailed =>
             /\ Identifiers(obj.status) = Identifiers(app0.status)
             /\ Identifiers(app.status) = Identifiers(app0.status)
             /\ obj.spec = app0.spec)
    /\ [][(pc = "setCondition" /\ loc.cond.status # "True") =>
             /\ obj'.status \in
                   {obj.status,
                    [obj.status EXCEPT !.Ready = FALSE, !.cond = loc.cond]}
             /\ obj'.spec = obj.spec]_vars

C36_Witness ==
    /\ PassEnded
    /\ ConvergenceFailed
    /\ Succeeded("StatusUpdate")
    /\ app0.status.Ready
    /\ ~obj.status.Ready
    /\ obj.status.cond # app0.status.cond
    /\ \A n \in 1..5 : Identifiers(obj.status)[n] # NoId

\* C37 (identifiers written together): in the stored status the project ID,
\* the OIDC application ID, the access application ID and the access policy
\* ID are either all empty or all set, so a recorded OIDC application ID
\* always comes with the project ID that the teardown needs to delete it.
Recorded(st) ==
    {st.ProjectID = NoId, st.ZitadelAppID = NoId,
     st.AccessApplicationID = NoId, st.AccessPolicyID = NoId}

C37_IdentifiersTogether ==
    /\ Cardinality(Recorded(obj.status)) = 1
    /\ Cardinality(Recorded(app0.status)) = 1
    /\ obj.status.ZitadelAppID # NoId => obj.status.ProjectID # NoId
    /\ (pc = "DeleteApp" \/ Issued("DeleteApp")) =>
          app0.status.ProjectID # NoId

C37_Witness ==
    /\ Issued("DeleteApp")
    /\ Recorded(app0.status) = {FALSE}
    /\ created.z # {}
    /\ Cardinality(created.pol) = 1
    /\ passes > 2

\* C38 (teardown does nothing else): a pass on a descriptor marked for
\* removal issues no call but DeleteApp, DeleteAccessApp and the removal of
\* the marker; it writes no cluster object and no status and creates or
\* changes nothing in the external systems; and when the marker is already
\* absent it issues no call and writes nothing at all.
TeardownPass == passes > 0 /\ app0.exists /\ app0.deleting
TeardownOps == {"DeleteApp", "DeleteAccessApp", "RemoveFinalizer"}

C38_TeardownOnly ==
    /\ [](TeardownPass =>
             /\ \A i \in Idx : calls[i].op \in TeardownOps
             /\ pc \in TeardownOps \cup {"idle"}
             /\ ~app0.finalizer => (calls = <<>> /\ pc = "idle"))
    /\ [][(TeardownPass /\ pc # "idle") =>
             /\ cluster' = cluster
             /\ obj'.status = obj.status
             /\ obj'.spec = obj.spec
             /\ zApps' \subseteq zApps
             /\ cfApps' \subseteq cfApps
             /\ cfPolicies' \subseteq cfPolicies
             /\ <<zProject, zRoles, nextId>>' = <<zProject, zRoles, nextId>>]_vars
    /\ [][(TeardownPass /\ ~app0.finalizer) =>
             <<obj, remote, cluster>>' = <<obj, remote, cluster>>]_vars

C38_WitnessUnmarked ==
    /\ TeardownPass
    /\ ~app0.finalizer
    /\ obj.exists
    /\ pc = "idle"
    /\ calls = <<>>
    /\ result = NoResult
    /\ passes > 1

C38_Witness ==
    /\ TeardownPass
    /\ app0.finalizer
    /\ Succeeded("DeleteApp")
    /\ Succeeded("DeleteAccessApp")
    /\ Succeeded("RemoveFinalizer")
    /\ k8sSecret.exists
    /\ k8sIngress.exists

\* C39 (credential object naming and content): the credential object is
\* named by spec.oidc.clientSecretRef when that is set and by the descriptor
\* name followed by "-oidc" otherwise, lives in the descriptor's namespace,
\* and holds the client ID and the client secret that the CreateApp call of
\* the writing pass returned.
CredentialWritten(i) ==
    calls[i].op = "writeCredentialSecret" /\ ~calls[i].err

C39_CredentialNameAndContent ==
    /\ k8sSecret.exists =>
          /\ k8sSecret.namespace = "default"
          /\ k8sSecret.name =
                CASE obj.spec.OIDC = OIDC("creds") -> "creds"
                  [] OTHER -> "app-oidc"
          /\ \E id \in created.z :
                /\ k8sSecret.clientId = ClientIdOf(id)
                /\ k8sSecret.clientSecret = SecretOf(id)
    /\ \A i \in Idx :
          CredentialWritten(i) =>
             \E j \in 1..(i-1) :
                /\ calls[j].op = "CreateApp"
                /\ ~calls[j].err
                /\ k8sSecret.clientId = ClientIdOf(calls[j].ret)
                /\ k8sSecret.clientSecret = calls[j].secret
                /\ calls[j].secret # NoSecret

C39_Witness ==
    /\ \E i \in Idx : CredentialWritten(i)
    /\ obj.spec.OIDC = OIDC("creds")
    /\ k8sSecret.name = "creds"
    /\ k8sSecret.clientSecret \in IssuedSecrets
    /\ PassSucceeded

C39_WitnessDefault ==
    /\ \E i \in Idx : CredentialWritten(i)
    /\ obj.spec.OIDC = OIDC("")
    /\ k8sSecret.name = "app-oidc"
    /\ PassSucceeded
====
